---- MODULE Spec2Model ----
(***************************************************************************)
(* Model of kombat: the directory hierarchy builders                       *)
(* (kombat.structures.hierarchy.Hierarchy and                              *)
(* kombat.crawlers.system_crawler.SystemCrawler) and the summary analysis  *)
(* that the Hierarchy constructor runs on the tree, and the exports of the  *)
(* tree (Hierarchy.export, CSVService, JSONService,                        *)
(* SystemCrawler.export_to_csv).                                           *)
(*                                                                         *)
(* Strings are sequences of one-character strings, so that lower-casing,   *)
(* extension splitting and lexicographic comparison are computed.          *)
(* Python dicts whose key order no property depends on are functions; the  *)
(* file-name -> metadata dict of an extension group keeps its insertion    *)
(* order and is a sequence of [name, meta] records.                        *)
(***************************************************************************)
EXTENDS Integers, Sequences, FiniteSets, Bags, TLC

VARIABLES fs, crawler, hier, call

vars == <<fs, crawler, hier, call>>

-----------------------------------------------------------------------------
(* Bounds of the model *)

\* deepest level (below the root) at which a directory exists
MaxLevel == 2

\* most entries one directory listing holds
MaxListing == 2

\* most entries of the whole file system below the root
MaxEntries == 4

\* largest finite depth argument
MaxDepth == 1

\* deepest level (below the root) of a file another process writes
MaxWriteLevel == 1

\* the number of symbolic links the system follows in one path (MAXSYMLINKS, 40
\* on Linux) before path resolution fails with ELOOP
MaxLinkHops == 2

-----------------------------------------------------------------------------
(* Strings *)

\* str.lower() on one character
Lower(c) ==
    CASE c = "T" -> "t"
      [] c = "C" -> "c"
      [] c = "J" -> "j"
      [] c = "S" -> "s"
      [] c = "X" -> "x"
      [] c = "P" -> "p"
      [] c = "D" -> "d"
      [] c = "F" -> "f"
      [] OTHER -> c

\* the code point of a character (Python compares strings by code point)
Ord(c) ==
    CASE c = "." -> 46
      [] c = "D" -> 68
      [] c = "F" -> 70
      [] c = "P" -> 80
      [] c = "T" -> 84
      [] c = "X" -> 88
      [] c = "a" -> 97
      [] c = "b" -> 98
      [] c = "c" -> 99
      [] c = "d" -> 100
      [] c = "e" -> 101
      [] c = "f" -> 102
      [] c = "l" -> 108
      [] c = "n" -> 110
      [] c = "o" -> 111
      [] c = "p" -> 112
      [] c = "r" -> 114
      [] c = "t" -> 116
      [] c = "u" -> 117
      [] c = "x" -> 120

\* str.lower()
str_lower(s) == [i \in 1..Len(s) |-> Lower(s[i])]

\* str.startswith('.')
startswith_dot(s) == Len(s) > 0 /\ s[1] = "."

\* a < b on Python strings
StrLess(a, b) ==
    \E i \in 1..Len(b) :
        /\ \A j \in 1..(i - 1) : j <= Len(a) /\ a[j] = b[j]
        /\ (i > Len(a) \/ Ord(a[i]) < Ord(b[i]))

DotPositions(s) == {i \in 1..Len(s) : s[i] = "."}

SetMax(S) == CHOOSE m \in S : \A x \in S : x <= m

\* os.path.splitext(name)[1]: from the last dot on, unless only dots precede it
splitext_ext(s) ==
    IF DotPositions(s) = {} THEN <<>>
    ELSE LET d == SetMax(DotPositions(s))
         IN  IF \E j \in 1..(d - 1) : s[j] # "." THEN SubSeq(s, d, Len(s)) ELSE <<>>

\* FileExt without the lower-casing
FileExt_cased(name) == splitext_ext(name)

\* os.path.splitext(item)[1].lower()
FileExt(name) == str_lower(splitext_ext(name))

\* os.path.basename(path), a path being the sequence of its components
basename(path) == path[Len(path)]

-----------------------------------------------------------------------------
(* The file system the builders read *)

A_TXT == <<"a", ".", "t", "x", "t">>
B_TXT == <<"b", ".", "t", "x", "t">>
C_PDF == <<"c", ".", "p", "d", "f">>
X_TXT_UPPER == <<"x", ".", "T", "X", "T">>
U_TXT == <<"u", ".", "t", "x", "t">>
DIR_D == <<"d">>
DIR_E == <<"e">>
LINK_L == <<"l">>
NOTE == <<"n", "o", "t", "e">>
DOT_TXT == <<".", "t", "x", "t">>
ROOT_NAME == <<"r">>
NOPE == <<"n", "o", "p", "e">>

\* st_size of a file with the given content
Size(content) ==
    CASE content = "hello" -> 5
      [] content = "other" -> 5
      [] content = "hi" -> 2

\* sha256 of the content: a digest that differs for different contents
Hash(content) == <<"sha256", content>>

\* ok = FALSE: stat or open of the file fails (OSError);
\* link = TRUE: the entry is a symbolic link to the root directory, which the
\* builders cannot tell from any other entry (they never ask os.path.islink);
\* later: the content a read finds once a write of another process has landed
\* (the content itself while no other process is writing the file)
File(name, content, ok) ==
    [name |-> name, isdir |-> FALSE, content |-> content, ok |-> ok, entries |-> <<>>,
     link |-> FALSE, later |-> content]

\* ok = FALSE: os.listdir of the directory fails (PermissionError);
\* entries is the listing in the order os.listdir returns it
Dir(name, ok, entries) ==
    [name |-> name, isdir |-> TRUE, content |-> "", ok |-> ok, entries |-> entries,
     link |-> FALSE, later |-> ""]

\* the files a listing of the root directory draws from; u.txt cannot be read
RootFiles ==
    { File(A_TXT, "hello", TRUE), File(C_PDF, "other", TRUE),
      File(X_TXT_UPPER, "hi", TRUE), File(U_TXT, "hi", FALSE) }

\* the files a listing of a directory below the root draws from
SubFiles == { File(A_TXT, "hello", TRUE), File(B_TXT, "hello", TRUE) }

FilePool(lvl) == IF lvl = 0 THEN RootFiles ELSE SubFiles

RECURSIVE Weight(_)
\* number of entries in a listing and below it
Weight(l) == IF l = <<>> THEN 0 ELSE 1 + Weight(Head(l).entries) + Weight(Tail(l))

DistinctNames(l) == \A i, j \in 1..Len(l) : i # j => l[i].name # l[j].name

SeqsUpTo(S, n) == UNION {[1..k -> S] : k \in 0..n}

RECURSIVE Listings(_)
\* the listings a directory at level lvl can have: files, and below MaxLevel a
\* directory d (at the root also one whose listing fails)
Listings(lvl) ==
    LET dirs == IF lvl < MaxLevel
                THEN {Dir(DIR_D, TRUE, l) : l \in Listings(lvl + 1)}
                     \cup (IF lvl = 0 THEN {Dir(DIR_D, FALSE, <<>>)} ELSE {})
                ELSE {}
    IN  {l \in SeqsUpTo(FilePool(lvl) \cup dirs, MaxListing) :
            DistinctNames(l) /\ Weight(l) <= MaxEntries}

\* a second directory e next to d in the root, holding files only
WithSibling ==
    {<<Dir(DIR_D, TRUE, l1), Dir(DIR_E, TRUE, l2)>> :
        l1 \in Listings(MaxLevel), l2 \in Listings(MaxLevel)}

\* the root of the duplicate scenario: a.txt and b.txt alike, c.pdf different,
\* listed in any order
ScenarioFiles ==
    { File(A_TXT, "hello", TRUE), File(B_TXT, "hello", TRUE), File(C_PDF, "other", TRUE) }

ScenarioListings ==
    {l \in [1..Cardinality(ScenarioFiles) -> ScenarioFiles] : DistinctNames(l)}

\* a root with two files whose names have no extension (one of them a dot-file,
\* whose leading dot os.path.splitext does not take for an extension) and a.txt
PlainListing ==
    <<File(NOTE, "hi", TRUE), File(DOT_TXT, "other", TRUE), File(A_TXT, "other", TRUE)>>

RECURSIVE ThroughLink(_)
\* what os.path.isdir, os.listdir and os.stat show at the entry l of the root, a
\* symbolic link to the root itself, while the path may follow hops more links:
\* the root's listing again, and below the limit a path that cannot be resolved
\* (ELOOP: os.path.isdir is False, os.stat raises OSError)
ThroughLink(hops) ==
    IF hops = 0
    THEN [File(LINK_L, "", FALSE) EXCEPT !.link = TRUE]
    ELSE [Dir(LINK_L, TRUE, <<File(A_TXT, "hello", TRUE), ThroughLink(hops - 1)>>)
            EXCEPT !.link = TRUE]

\* a root that holds a.txt and the link l to itself
LoopedListing == <<File(A_TXT, "hello", TRUE), ThroughLink(MaxLinkHops)>>

FileSystems ==
    {Dir(ROOT_NAME, TRUE, l) :
        l \in Listings(0) \cup WithSibling \cup ScenarioListings
                \cup {LoopedListing, PlainListing}}
        \cup {Dir(ROOT_NAME, FALSE, <<>>)}

RECURSIVE Resolve(_, _)
\* the entry a path names, or a record with exists = FALSE
Resolve(dir, path) ==
    IF path = <<>> THEN [exists |-> TRUE, entry |-> dir]
    ELSE LET hits == {i \in 1..Len(dir.entries) : dir.entries[i].name = Head(path)}
         IN  IF hits = {} \/ ~dir.isdir THEN [exists |-> FALSE, entry |-> dir]
             ELSE Resolve(dir.entries[CHOOSE i \in hits : TRUE], Tail(path))

\* the content another process writes into a file
WRITTEN == "hi"

\* a file another process may write: a.txt, readable, in its first state
Writable(e) ==
    ~e.isdir /\ ~e.link /\ e.ok /\ e.name = A_TXT /\ e.content = "hello" /\ e.later = e.content

RECURSIVE WriteTargets(_, _)
\* where the writable files are: index paths from dir, down to MaxWriteLevel
WriteTargets(dir, level) ==
    {<<i>> : i \in {j \in 1..Len(dir.entries) : Writable(dir.entries[j])}}
        \cup UNION {{<<i>> \o t : t \in WriteTargets(dir.entries[i], level + 1)} :
                        i \in {j \in 1..Len(dir.entries) :
                                  /\ level < MaxWriteLevel
                                  /\ dir.entries[j].isdir
                                  /\ ~dir.entries[j].link}}

RECURSIVE WriteAt(_, _)
\* the file at the index path t is being written: the next build reads the old
\* content first and the written content afterwards
WriteAt(dir, t) ==
    IF Len(t) = 1
    THEN [dir EXCEPT !.entries[t[1]].later = WRITTEN]
    ELSE [dir EXCEPT !.entries[t[1]] = WriteAt(@, Tail(t))]

RECURSIVE Pending(_)
\* a write of another process is under way somewhere below dir
Pending(dir) ==
    \E i \in 1..Len(dir.entries) :
        IF dir.entries[i].isdir
        THEN Pending(dir.entries[i])
        ELSE dir.entries[i].later # dir.entries[i].content

RECURSIVE Settled(_)
\* the directory once every write under way has landed
Settled(dir) ==
    [dir EXCEPT !.entries =
        [i \in 1..Len(dir.entries) |->
            IF dir.entries[i].isdir
            THEN Settled(dir.entries[i])
            ELSE [dir.entries[i] EXCEPT !.content = dir.entries[i].later]]]

\* root paths are given from the directory that holds fs
Lookup(path) ==
    IF path = <<>> \/ Head(path) # fs.name THEN [exists |-> FALSE, entry |-> fs]
    ELSE Resolve(fs, Tail(path))

\* os.path.exists(root_path)
path_exists(path) == Lookup(path).exists

\* os.path.isdir(root_path)
path_isdir(path) == Lookup(path).exists /\ Lookup(path).entry.isdir

-----------------------------------------------------------------------------
(* Python values shared by both builders *)

\* the empty dict {}
EmptyDict == <<>>

\* None, for a path
None == <<>>

\* the element of a one-element set. Value({e(x) : x \in {v}}) is e(v) with v
\* computed once, as Python computes the right-hand side of an assignment once
Value(S) == CHOOSE v \in S : TRUE

\* d[k] = v
DictSet(d, k, v) == [x \in DOMAIN d \cup {k} |-> IF x = k THEN v ELSE d[x]]

\* DictUpdate that stores nothing
DictUpdate_none(d, e) == d

\* d.update(e)
DictUpdate(d, e) ==
    [x \in DOMAIN d \cup DOMAIN e |-> IF x \in DOMAIN e THEN e[x] ELSE d[x]]

\* {k: v for k, v in d.items() if k in keys}
DictRestrict(d, keys) == [x \in keys |-> d[x]]

\* ItemsSet that drops what the group held
ItemsSet_last(items, name, meta) == <<[name |-> name, meta |-> meta]>>

\* items[name] = meta on an insertion-ordered dict
ItemsSet(items, name, meta) ==
    IF \E i \in 1..Len(items) : items[i].name = name
    THEN [i \in 1..Len(items) |->
            IF items[i].name = name THEN [name |-> name, meta |-> meta] ELSE items[i]]
    ELSE Append(items, [name |-> name, meta |-> meta])

\* dict(sorted(items.items())): the keys are distinct, so the key decides the rank
SortedItems(items) ==
    LET rank(k) == 1 + Cardinality({j \in 1..Len(items) :
                                        StrLess(items[j].name, items[k].name)})
    IN  [i \in 1..Len(items) |-> items[CHOOSE k \in 1..Len(items) : rank(k) = i]]

\* the extensions argument: None, or a set of strings
NoFilter == [isNone |-> TRUE, exts |-> {}]
Filter(S) == [isNone |-> FALSE, exts |-> S]

\* normalisation that lower-cases but adds no dot
NormalizeExt_bare(ext) == str_lower(ext)

\* {ext.lower() if ext.startswith('.') else f'.{ext.lower()}' for ext in extensions}
NormalizeExt(ext) == IF startswith_dot(ext) THEN str_lower(ext) ELSE <<".">> \o str_lower(ext)

NormalizeExtensions(extensions) ==
    IF extensions.isNone THEN extensions
    ELSE Filter({NormalizeExt(ext) : ext \in extensions.exts})

\* FilteredOut with the membership test inverted
FilteredOut_inverted(name, extensions) ==
    ~extensions.isNone /\ FileExt(name) \in extensions.exts

\* "if extensions is not None: ... if ext not in extensions: continue"
FilteredOut(name, extensions) ==
    ~extensions.isNone /\ FileExt(name) \notin extensions.exts

\* _get_file_metadata: os.stat and the hashing read raise when the file cannot be
\* accessed; the record keeps the fields the aggregates are computed from
GetFileMetadata(item) ==
    IF ~item.ok THEN [raised |-> TRUE, meta |-> [size_in_bytes |-> 0, hash |-> <<>>]]
    ELSE [raised |-> FALSE,
          meta |-> [size_in_bytes |-> Size(item.content), hash |-> Hash(item.content)]]

\* the file as the second _get_file_metadata of one loop step finds it (the call
\* inside _add_file_to_hierarchy): a write of another process has landed
SecondRead(item) == [item EXCEPT !.content = item.later]

\* "if file_hash not in hash_to_files: ...; hash_to_files[file_hash].append(item)"
HashAppend(hash_to_files, file_hash, name) ==
    DictSet(hash_to_files, file_hash,
            IF file_hash \in DOMAIN hash_to_files
            THEN Append(hash_to_files[file_hash], name)
            ELSE <<name>>)

\* Duplicates with len(files) >= 1
Duplicates_single(hash_to_files) ==
    DictRestrict(hash_to_files, {h \in DOMAIN hash_to_files : Len(hash_to_files[h]) >= 1})

\* {h: files for h, files in hash_to_files.items() if len(files) > 1}
Duplicates(hash_to_files) ==
    DictRestrict(hash_to_files, {h \in DOMAIN hash_to_files : Len(hash_to_files[h]) > 1})

\* "if duplicates: node['duplicates'] = duplicates"
WithDuplicates(node, hash_to_files) ==
    IF DOMAIN Duplicates(hash_to_files) = {} THEN node
    ELSE DictSet(node, "duplicates", Duplicates(hash_to_files))

\* NextDepth with the decrement forgotten
NextDepth_same(depth) == IF depth > 0 THEN depth ELSE -1

\* depth - 1 if depth > 0 else -1
NextDepth(depth) == IF depth > 0 THEN depth - 1 ELSE -1

RECURSIVE SumTotals(_, _)
\* sum of dirs[k]["total_size_in_bytes"] over the keys
SumTotals(dirs, keys) ==
    IF keys = {} THEN 0
    ELSE LET k == CHOOSE x \in keys : TRUE
         IN  dirs[k].total_size_in_bytes + SumTotals(dirs, keys \ {k})

\* what the walk did to one entry: it entered a directory (_process_directory
\* was called on it), read the metadata and the hash of a file, or left a
\* directory (_process_directory returned); path is relative to the directory
\* whose loop recorded the event
Event(kind, path) == [kind |-> kind, path |-> path]

\* DirEvents of a walk that returns to the parent's loop before the
\* subdirectory's entries are worked on
DirEvents_deferred(name, events) ==
    <<Event("enter", <<name>>), Event("exit", <<name>>)>>
        \o [i \in 1..Len(events) |-> [events[i] EXCEPT !.path = <<name>> \o @]]

\* the events of the walk of the subdirectory name, as its parent's loop sees them
DirEvents(name, events) ==
    <<Event("enter", <<name>>)>>
        \o [i \in 1..Len(events) |-> [events[i] EXCEPT !.path = <<name>> \o @]]
        \o <<Event("exit", <<name>>)>>

\* the state of one directory loop; events is the order of the loop's work
Loop(node) ==
    [raised |-> FALSE, node |-> node, hash_to_files |-> EmptyDict, events |-> <<>>]

-----------------------------------------------------------------------------
(* kombat.structures.hierarchy.Hierarchy *)

HRootNode == [total_size_in_bytes |-> 0, directories |-> EmptyDict,
              file_count |-> 0, files |-> EmptyDict]

HSubNode == [total_size_in_bytes |-> 0, file_count |-> 0, files |-> EmptyDict]

\* Hierarchy._add_file_to_hierarchy
HAddFile(section, item) ==
    LET ext   == FileExt(item.name)
        files == IF ext \notin DOMAIN section.files
                 THEN DictSet(section.files, ext, <<>>)
                 ELSE section.files
    IN  [section EXCEPT !.files =
            DictSet(files, ext, ItemsSet(files[ext], item.name,
                                         GetFileMetadata(SecondRead(item)).meta))]

\* HFileStep counting a file twice
HFileStep_twice(st, item) ==
    LET metadata == GetFileMetadata(item)
    IN  IF metadata.raised THEN [st EXCEPT !.raised = TRUE]
        ELSE LET added == HAddFile(st.node, item)
             IN  [raised |-> FALSE,
                  node |-> [added EXCEPT
                              !.total_size_in_bytes = @ + metadata.meta.size_in_bytes,
                              !.file_count = @ + 2],
                  hash_to_files |-> HashAppend(st.hash_to_files, metadata.meta.hash, item.name),
                  events |-> Append(st.events, Event("file", <<item.name>>))]

\* the file branch of both loops: metadata, hash bookkeeping, size and count
HFileStep(st, item) ==
    LET metadata == GetFileMetadata(item)
    IN  IF metadata.raised THEN [st EXCEPT !.raised = TRUE]
        ELSE LET added == HAddFile(st.node, item)
             IN  [raised |-> FALSE,
                  node |-> [added EXCEPT
                              !.total_size_in_bytes = @ + metadata.meta.size_in_bytes,
                              !.file_count = @ + 1],
                  hash_to_files |-> HashAppend(st.hash_to_files, metadata.meta.hash, item.name),
                  events |-> Append(st.events, Event("file", <<item.name>>))]

\* "for ext, files in node['files'].items(): node['files'][ext] = dict(sorted(...))"
HSortFiles(node) ==
    [node EXCEPT !.files = [ext \in DOMAIN node.files |-> SortedItems(node.files[ext])]]

\* dir_hierarchy.get("directories", {})
GetDirectories(node) ==
    IF "directories" \in DOMAIN node THEN node.directories ELSE EmptyDict

RECURSIVE HProcessDirectory(_, _, _, _)
RECURSIVE HProcessItems(_, _, _, _, _)

\* the loop of Hierarchy._process_directory from entry i on
HProcessItems(entries, i, st0, extensions, depth) ==
  Value({
    IF st.raised \/ i > Len(entries) THEN st
    ELSE LET item == entries[i]
         IN  IF item.isdir
             THEN IF depth = 0
                  THEN HProcessItems(entries, i + 1, st, extensions, depth)
                  ELSE Value({
                           IF sub.raised THEN [st EXCEPT !.raised = TRUE]
                           ELSE HProcessItems(entries, i + 1,
                                    [st EXCEPT !.node =
                                        DictSet(st.node, "directories",
                                                DictSet(GetDirectories(st.node),
                                                        item.name, sub.node)),
                                               !.events =
                                        @ \o DirEvents(item.name, sub.events)],
                                    extensions, depth)
                         : sub \in {HProcessDirectory(item, HSubNode, extensions,
                                                      NextDepth(depth))} })
             ELSE IF FilteredOut(item.name, extensions)
                  THEN HProcessItems(entries, i + 1, st, extensions, depth)
                  ELSE HProcessItems(entries, i + 1, HFileStep(st, item), extensions, depth)
  : st \in {st0} })

\* Hierarchy._process_directory
HProcessDirectory(dir, dir_hierarchy, extensions, depth) ==
    IF ~dir.ok THEN [raised |-> TRUE, node |-> dir_hierarchy, events |-> <<>>]
    ELSE Value({
             IF st.raised THEN [raised |-> TRUE, node |-> dir_hierarchy, events |-> <<>>]
             ELSE [raised |-> FALSE,
                   node |-> HSortFiles(WithDuplicates(st.node, st.hash_to_files)),
                   events |-> st.events]
           : st \in {HProcessItems(dir.entries, 1, Loop(dir_hierarchy), extensions, depth)} })

RECURSIVE HRootItems(_, _, _, _, _)
\* the loop of Hierarchy.build_hierarchy over the root listing from entry i on
HRootItems(entries, i, st0, extensions, depth) ==
  Value({
    IF st.raised \/ i > Len(entries) THEN st
    ELSE LET item == entries[i]
         IN  IF item.isdir
             THEN IF depth = 0
                  THEN HRootItems(entries, i + 1, st, extensions, depth)
                  ELSE Value({
                           IF sub.raised THEN [st EXCEPT !.raised = TRUE]
                           ELSE HRootItems(entries, i + 1,
                                    [st EXCEPT !.node.directories =
                                        DictSet(st.node.directories, item.name, sub.node),
                                               !.events =
                                        @ \o DirEvents(item.name, sub.events)],
                                    extensions, depth)
                         : sub \in {HProcessDirectory(item, HSubNode, extensions,
                                                      NextDepth(depth))} })
             ELSE IF FilteredOut(item.name, extensions)
                  THEN HRootItems(entries, i + 1, st, extensions, depth)
                  ELSE HRootItems(entries, i + 1, HFileStep(st, item), extensions, depth)
  : st \in {st0} })

\* the end of Hierarchy.build_hierarchy: duplicates, sorting, the root's total
HFinishRoot(st) ==
    Value({
        Value({
            [sorted EXCEPT !.total_size_in_bytes =
                @ + SumTotals(sorted.directories, DOMAIN sorted.directories)]
          : sorted \in {[withDup EXCEPT !.directories =
                            [d \in DOMAIN withDup.directories |->
                                HSortFiles(withDup.directories[d])]]} })
      : withDup \in {HSortFiles(WithDuplicates(st.node, st.hash_to_files))} })

\* Hierarchy.build_hierarchy once root_path is known to be the directory root:
\* normalisation, the root node, the walk; raised, and formed_hierarchy at the end
HFormHierarchy(root, name, extensions0, depth) ==
    LET extensions == NormalizeExtensions(extensions0)
        empty      == DictSet(EmptyDict, name, HRootNode)
    IN  IF ~root.ok THEN [raised |-> TRUE, formed |-> empty, walk |-> <<>>]
        ELSE IF root.entries = <<>> THEN [raised |-> FALSE, formed |-> empty, walk |-> <<>>]
        ELSE Value({
                 IF st.raised THEN [raised |-> TRUE, formed |-> empty, walk |-> <<>>]
                 ELSE [raised |-> FALSE,
                       formed |-> DictSet(EmptyDict, name, HFinishRoot(st)),
                       walk |-> st.events]
               : st \in {HRootItems(root.entries, 1, Loop(HRootNode), extensions, depth)} })

\* Hierarchy.build_hierarchy on an object whose dict content is self:
\* raised, the dict content afterwards, and formed_hierarchy at the return
HBuildHierarchy(self, root_path, extensions0, depth) ==
    IF ~path_exists(root_path) \/ ~path_isdir(root_path)
    THEN [raised |-> FALSE, self |-> self, formed |-> EmptyDict, walk |-> <<>>]
    ELSE Value({
             [raised |-> r.raised,
              self |-> IF r.raised THEN self ELSE DictUpdate(self, r.formed),
              formed |-> r.formed,
              walk |-> r.walk]
           : r \in {HFormHierarchy(Lookup(root_path).entry, basename(root_path),
                                   extensions0, depth)} })

-----------------------------------------------------------------------------
(* kombat.crawlers.system_crawler.SystemCrawler *)

CFiles == [count |-> 0, by_extension |-> EmptyDict]

CRootNode == [total_size_in_bytes |-> 0, directories |-> EmptyDict, files |-> CFiles]

CSubNode == [total_size_in_bytes |-> 0, files |-> CFiles]

\* SystemCrawler._add_file_to_hierarchy, on the node's "files" section
CAddFile(section, item) ==
    LET ext    == FileExt(item.name)
        by_ext == IF ext \notin DOMAIN section.by_extension
                  THEN DictSet(section.by_extension, ext, [count |-> 0, items |-> <<>>])
                  ELSE section.by_extension
    IN  [count |-> section.count + 1,
         by_extension |->
            DictSet(by_ext, ext,
                    [count |-> by_ext[ext].count + 1,
                     items |-> ItemsSet(by_ext[ext].items, item.name,
                                        GetFileMetadata(SecondRead(item)).meta)])]

\* the file branch of both loops: metadata, hash bookkeeping and size
CFileStep(st, item) ==
    LET metadata == GetFileMetadata(item)
    IN  IF metadata.raised THEN [st EXCEPT !.raised = TRUE]
        ELSE [raised |-> FALSE,
              node |-> [st.node EXCEPT
                          !.files = CAddFile(st.node.files, item),
                          !.total_size_in_bytes = @ + metadata.meta.size_in_bytes],
              hash_to_files |-> HashAppend(st.hash_to_files, metadata.meta.hash, item.name),
              events |-> Append(st.events, Event("file", <<item.name>>))]

\* "for ext_info in ...['by_extension'].values(): ext_info['items'] = dict(sorted(...))"
CSortFiles(node) ==
    [node EXCEPT !.files.by_extension =
        [ext \in DOMAIN node.files.by_extension |->
            [node.files.by_extension[ext] EXCEPT !.items = SortedItems(@)]]]

RECURSIVE CProcessDirectory(_, _, _, _)
RECURSIVE CProcessItems(_, _, _, _, _)

\* the loop of SystemCrawler._process_directory from entry i on
CProcessItems(entries, i, st0, extensions, depth) ==
  Value({
    IF st.raised \/ i > Len(entries) THEN st
    ELSE LET item == entries[i]
         IN  IF item.isdir
             THEN IF depth = 0
                  THEN CProcessItems(entries, i + 1, st, extensions, depth)
                  ELSE Value({
                           IF sub.raised THEN [st EXCEPT !.raised = TRUE]
                           ELSE CProcessItems(entries, i + 1,
                                    [st EXCEPT !.node =
                                        DictSet(st.node, "directories",
                                                DictSet(GetDirectories(st.node),
                                                        item.name, sub.node)),
                                               !.events =
                                        @ \o DirEvents(item.name, sub.events)],
                                    extensions, depth)
                         : sub \in {CProcessDirectory(item, CSubNode, extensions,
                                                      NextDepth(depth))} })
             ELSE IF FilteredOut(item.name, extensions)
                  THEN CProcessItems(entries, i + 1, st, extensions, depth)
                  ELSE CProcessItems(entries, i + 1, CFileStep(st, item), extensions, depth)
  : st \in {st0} })

\* SystemCrawler._process_directory
CProcessDirectory(dir, dir_hierarchy, extensions, depth) ==
    IF ~dir.ok THEN [raised |-> TRUE, node |-> dir_hierarchy, events |-> <<>>]
    ELSE Value({
             IF st.raised THEN [raised |-> TRUE, node |-> dir_hierarchy, events |-> <<>>]
             ELSE [raised |-> FALSE, node |-> WithDuplicates(st.node, st.hash_to_files),
                   events |-> st.events]
           : st \in {CProcessItems(dir.entries, 1, Loop(dir_hierarchy), extensions, depth)} })

RECURSIVE CRootItems(_, _, _, _, _)
\* the loop of SystemCrawler.build_hierarchy over the root listing from entry i on
CRootItems(entries, i, st0, extensions, depth) ==
  Value({
    IF st.raised \/ i > Len(entries) THEN st
    ELSE LET item == entries[i]
         IN  IF item.isdir
             THEN IF depth = 0
                  THEN CRootItems(entries, i + 1, st, extensions, depth)
                  ELSE Value({
                           IF sub.raised THEN [st EXCEPT !.raised = TRUE]
                           ELSE CRootItems(entries, i + 1,
                                    [st EXCEPT !.node.directories =
                                        DictSet(st.node.directories, item.name, sub.node),
                                               !.events =
                                        @ \o DirEvents(item.name, sub.events)],
                                    extensions, depth)
                         : sub \in {CProcessDirectory(item, CSubNode, extensions,
                                                      NextDepth(depth))} })
             ELSE IF FilteredOut(item.name, extensions)
                  THEN CRootItems(entries, i + 1, st, extensions, depth)
                  ELSE CRootItems(entries, i + 1, CFileStep(st, item), extensions, depth)
  : st \in {st0} })

\* the end of SystemCrawler.build_hierarchy: duplicates, sorting of the root and of
\* its immediate subdirectories, the root's total
CFinishRoot(st) ==
    Value({
        Value({
            [sorted EXCEPT !.total_size_in_bytes =
                @ + SumTotals(sorted.directories, DOMAIN sorted.directories)]
          : sorted \in {[withDup EXCEPT !.directories =
                            [d \in DOMAIN withDup.directories |->
                                CSortFiles(withDup.directories[d])]]} })
      : withDup \in {CSortFiles(WithDuplicates(st.node, st.hash_to_files))} })

\* SystemCrawler.build_hierarchy once root_path is known to be the directory root:
\* normalisation, the root node, the walk; raised, and formed_hierarchy at the end
CFormHierarchy(root, name, extensions0, depth) ==
    LET extensions == NormalizeExtensions(extensions0)
        empty      == DictSet(EmptyDict, name, CRootNode)
    IN  IF ~root.ok THEN [raised |-> TRUE, formed |-> empty, walk |-> <<>>]
        ELSE IF root.entries = <<>> THEN [raised |-> FALSE, formed |-> empty, walk |-> <<>>]
        ELSE Value({
                 IF st.raised THEN [raised |-> TRUE, formed |-> empty, walk |-> <<>>]
                 ELSE [raised |-> FALSE,
                       formed |-> DictSet(EmptyDict, name, CFinishRoot(st)),
                       walk |-> st.events]
               : st \in {CRootItems(root.entries, 1, Loop(CRootNode), extensions, depth)} })

\* CInvalidRoot returning without touching the object
CInvalidRoot_keep(self) == self

\* what SystemCrawler.build_hierarchy does for a root that is missing or no directory
CInvalidRoot(self) == [self EXCEPT !.hierarchy = EmptyDict]

\* build_hierarchy that starts the root's total from the total the object holds
CBuildHierarchy_accumulating(self, root_path, extensions0, depth) ==
    IF ~path_exists(root_path) \/ ~path_isdir(root_path)
    THEN [raised |-> FALSE, self |-> CInvalidRoot(self), formed |-> EmptyDict,
          walk |-> <<>>]
    ELSE LET name == basename(root_path)
             carried == IF name \in DOMAIN self.hierarchy
                        THEN self.hierarchy[name].total_size_in_bytes ELSE 0
         IN  Value({
               LET formed == [r.formed EXCEPT ![name].total_size_in_bytes = @ + carried]
               IN  [raised |-> r.raised,
                    self |-> IF r.raised THEN self ELSE [self EXCEPT !.hierarchy = formed],
                    formed |-> formed,
                    walk |-> r.walk]
             : r \in {CFormHierarchy(Lookup(root_path).entry, name, extensions0, depth)} })

\* build_hierarchy that stores formed_hierarchy as far as the walk got when an
\* exception ends it
CBuildHierarchy_publishing(self, root_path, extensions0, depth) ==
    IF ~path_exists(root_path) \/ ~path_isdir(root_path)
    THEN [raised |-> FALSE, self |-> CInvalidRoot(self), formed |-> EmptyDict,
          walk |-> <<>>]
    ELSE Value({
           [raised |-> r.raised,
            self |-> [self EXCEPT !.hierarchy_root_path = root_path,
                                  !.hierarchy = r.formed],
            formed |-> r.formed,
            walk |-> r.walk]
         : r \in {CFormHierarchy(Lookup(root_path).entry, basename(root_path),
                                 extensions0, depth)} })

\* SystemCrawler.build_hierarchy on the object self: raised, the object afterwards,
\* and formed_hierarchy at the return
CBuildHierarchy(self, root_path, extensions0, depth) ==
    IF ~path_exists(root_path) \/ ~path_isdir(root_path)
    THEN [raised |-> FALSE, self |-> CInvalidRoot(self), formed |-> EmptyDict,
          walk |-> <<>>]
    ELSE LET recorded == [self EXCEPT !.hierarchy_root_path = root_path]
         IN  Value({
               [raised |-> r.raised,
                self |-> IF r.raised THEN recorded
                         ELSE [recorded EXCEPT !.hierarchy = r.formed],
                formed |-> r.formed,
                walk |-> r.walk]
             : r \in {CFormHierarchy(Lookup(root_path).entry, basename(root_path),
                                     extensions0, depth)} })

-----------------------------------------------------------------------------
(* kombat.services.analysis_service.AnalysisService *)

\* self.summary = {} before any analysis
NoSummary == [computed |-> FALSE, total_files |-> 0, total_directories |-> 0,
              disk_usage_by_extension |-> EmptyDict, empty_directories |-> {}]

RECURSIVE SumSizes(_)
\* the sum of metadata["size_in_bytes"] over the files of one extension group
SumSizes(items) ==
    IF items = <<>> THEN 0 ELSE Head(items).meta.size_in_bytes + SumSizes(Tail(items))

CounterAdd_overwrite(u, v) ==
    [e \in DOMAIN u \cup DOMAIN v |-> IF e \in DOMAIN v THEN v[e] ELSE u[e]]

\* Counter addition
CounterAdd(u, v) ==
    [e \in DOMAIN u \cup DOMAIN v |->
        (IF e \in DOMAIN u THEN u[e] ELSE 0) + (IF e \in DOMAIN v THEN v[e] ELSE 0)]

RECURSIVE CountFiles(_, _)
\* the number of files over the extension groups exts of files
CountFiles(files, exts) ==
    IF exts = {} THEN 0
    ELSE LET e == CHOOSE x \in exts : TRUE
         IN  Len(files[e]) + CountFiles(files, exts \ {e})

\* the accumulators of analyze_hierarchy, and whether a KeyError was raised
Acc0 == [raised |-> FALSE, total_files |-> 0, total_directories |-> 0,
         disk_usage_by_extension |-> EmptyDict, empty_directories |-> {}]

RECURSIVE Traverse(_, _, _)
RECURSIVE TraverseDirs(_, _, _, _)

\* the loop over node["directories"].items(); keys are the names still to visit
TraverseDirs(dirs, keys, current_path, acc0) ==
  Value({
    IF acc.raised \/ keys = {} THEN acc
    ELSE LET dir_name == CHOOSE x \in keys : TRUE
             dir_data == dirs[dir_name]
             dir_path == Append(current_path, dir_name)
         IN  IF DOMAIN dir_data.files = {} /\ "directories" \notin DOMAIN dir_data
             THEN [acc EXCEPT !.raised = TRUE]
             ELSE LET isEmpty == DOMAIN dir_data.files = {}
                                   /\ DOMAIN dir_data.directories = {}
                      marked  == IF isEmpty
                                 THEN [acc EXCEPT !.empty_directories = @ \cup {dir_path}]
                                 ELSE acc
                  IN  TraverseDirs(dirs, keys \ {dir_name}, current_path,
                                   Traverse(dir_data, dir_path, marked))
  : acc \in {acc0} })

\* analyze_hierarchy.traverse
Traverse(node, current_path, acc0) ==
  Value({
    LET counted ==
            IF "files" \in DOMAIN node
            THEN [acc EXCEPT
                    !.total_files = @ + CountFiles(node.files, DOMAIN node.files),
                    !.disk_usage_by_extension =
                        CounterAdd(@, [e \in DOMAIN node.files |-> SumSizes(node.files[e])])]
            ELSE acc
    IN  IF "directories" \in DOMAIN node
        THEN TraverseDirs(node.directories, DOMAIN node.directories, current_path,
                          [counted EXCEPT !.total_directories =
                              @ + Cardinality(DOMAIN node.directories)])
        ELSE counted
  : acc \in {acc0} })

RECURSIVE TraverseRoots(_, _, _)
\* "for root_name, root_data in hierarchy.items(): traverse(root_data, root_name)"
TraverseRoots(hierarchy, keys, acc0) ==
  Value({
    IF acc.raised \/ keys = {} THEN acc
    ELSE LET root_name == CHOOSE x \in keys : TRUE
         IN  TraverseRoots(hierarchy, keys \ {root_name},
                           Traverse(hierarchy[root_name], <<root_name>>, acc))
  : acc \in {acc0} })

\* AnalysisService.analyze_hierarchy: raised, and the summary it returns
AnalyzeHierarchy(hierarchy) ==
    Value({
        [raised |-> acc.raised,
         summary |-> [computed |-> TRUE,
                      total_files |-> acc.total_files,
                      total_directories |-> acc.total_directories,
                      disk_usage_by_extension |-> acc.disk_usage_by_extension,
                      empty_directories |-> acc.empty_directories]]
      : acc \in {TraverseRoots(hierarchy, DOMAIN hierarchy, Acc0)} })

-----------------------------------------------------------------------------
(* kombat.services.csv_service.CSVService, SystemCrawler.export_to_csv,        *)
(* kombat.services.json_service.JSONService                                    *)

\* f"{root_dir}/{dir_name}"
SlashJoin(root_dir, dir_name) == root_dir \o <<"/">> \o dir_name

\* the row appended for one file; the fields copied unchanged from the metadata
\* are kept as far as the model's metadata has them
Row(directory_path, item) ==
    [directory |-> directory_path, file_name |-> item.name,
     size_bytes |-> item.meta.size_in_bytes, hash |-> item.meta.hash]

\* the extension groups of a "files" section: CSVService reads
\* files_data.items(), SystemCrawler.export_to_csv reads
\* files_data["by_extension"].values() and there ext_info["items"]
FilesGroups(files_data, layout) ==
    IF layout = "crawler"
    THEN [e \in DOMAIN files_data.by_extension |-> files_data.by_extension[e].items]
    ELSE files_data

RECURSIVE RowsOfItems(_, _, _)
\* the rows appended for the files of one group from position i on
RowsOfItems(directory_path, items, i) ==
    IF i > Len(items) THEN EmptyBag
    ELSE SetToBag({Row(directory_path, items[i])})
            (+) RowsOfItems(directory_path, items, i + 1)

RECURSIVE RowsOfGroups(_, _, _)
\* process_files: the rows appended for the groups exts of one section
RowsOfGroups(directory_path, groups, exts) ==
    IF exts = {} THEN EmptyBag
    ELSE LET e == CHOOSE x \in exts : TRUE
         IN  RowsOfItems(directory_path, groups[e], 1)
                (+) RowsOfGroups(directory_path, groups, exts \ {e})

process_files(directory_path, files_data, layout) ==
    RowsOfGroups(directory_path, FilesGroups(files_data, layout),
                 DOMAIN FilesGroups(files_data, layout))

RECURSIVE RowsOfDirectories(_, _, _, _)
\* "for dir_name, dir_data in root_data['directories'].items(): ..."
RowsOfDirectories(root_dir, directories, names, layout) ==
    IF names = {} THEN EmptyBag
    ELSE LET dir_name == CHOOSE x \in names : TRUE
         IN  process_files(SlashJoin(root_dir, dir_name), directories[dir_name].files, layout)
                (+) RowsOfDirectories(root_dir, directories, names \ {dir_name}, layout)

RECURSIVE ExportRows(_, _, _)
\* the rows export_to_csv collects over the roots keys of the hierarchy; the
\* order of the rows is left out, how often a row occurs is kept
ExportRows(hierarchy, keys, layout) ==
    IF keys = {} THEN EmptyBag
    ELSE LET root_dir  == CHOOSE x \in keys : TRUE
             root_data == hierarchy[root_dir]
         IN  (IF "files" \in DOMAIN root_data
              THEN process_files(root_dir, root_data.files, layout) ELSE EmptyBag)
             (+) (IF "directories" \in DOMAIN root_data
                  THEN RowsOfDirectories(root_dir, root_data.directories,
                                         DOMAIN root_data.directories, layout)
                  ELSE EmptyBag)
             (+) ExportRows(hierarchy, keys \ {root_dir}, layout)

\* what one export call did: the export type asked for, whether it raised, the
\* services it called, whether a file was written, the rows or the mapping
\* written to it, and the type the ValueError names if one was raised
NoExport == [type |-> <<>>, raised |-> FALSE, services |-> <<>>, written |-> FALSE,
             rows |-> EmptyBag, json |-> EmptyDict, unsupported |-> <<>>]

\* export_to_csv: the file is written only "if rows"
export_to_csv(hierarchy, layout) ==
    Value({ [NoExport EXCEPT !.written = (rows # EmptyBag), !.rows = rows]
          : rows \in {ExportRows(hierarchy, DOMAIN hierarchy, layout)} })

\* JSONService.export_to_json: json.dump of the mapping
export_to_json(hierarchy) == [NoExport EXCEPT !.written = TRUE, !.json = hierarchy]

JSON_TYPE == <<"j", "s", "o", "n">>
CSV_TYPE == <<"c", "s", "v">>

\* HExport comparing export_type as it was passed
HExport_cased(self, export_type) ==
    IF export_type = JSON_TYPE
    THEN [export_to_json(self) EXCEPT
            !.type = export_type, !.services = <<"JSONService.export_to_json">>]
    ELSE IF export_type = CSV_TYPE
    THEN [export_to_csv(self, "hierarchy") EXCEPT
            !.type = export_type, !.services = <<"CSVService.export_to_csv">>]
    ELSE [NoExport EXCEPT !.type = export_type, !.raised = TRUE,
                          !.unsupported = export_type]

\* Hierarchy.export(location, export_type)
HExport(self, export_type) ==
    IF str_lower(export_type) = JSON_TYPE
    THEN [export_to_json(self) EXCEPT
            !.type = export_type, !.services = <<"JSONService.export_to_json">>]
    ELSE IF str_lower(export_type) = CSV_TYPE
    THEN [export_to_csv(self, "hierarchy") EXCEPT
            !.type = export_type, !.services = <<"CSVService.export_to_csv">>]
    ELSE [NoExport EXCEPT !.type = export_type, !.raised = TRUE,
                          !.unsupported = export_type]

-----------------------------------------------------------------------------
(* The objects, and the calls a client makes on them *)

\* no object constructed yet
NoCrawler == [exists |-> FALSE, hierarchy |-> EmptyDict, hierarchy_root_path |-> None]

NoHierarchy == [exists |-> FALSE, dict |-> EmptyDict, root_path |-> None,
                extensions |-> NoFilter, depth |-> -1,
                hierarchy_root_path |-> None, summary |-> NoSummary]

\* the last call: its arguments, whether build_hierarchy raised in it, whether the
\* call as a whole returned, formed_hierarchy at its end, whether the object
\* held a tree when the call began, whether the call repeated the build
\* before it on the same object, for an export what it did, and for a build
\* the order of the walk's work
NoCall == [op |-> "none", root_path |-> None, extensions |-> NoFilter, depth |-> -1,
           raised |-> FALSE, returned |-> TRUE, formed |-> EmptyDict, had_tree |-> FALSE,
           repeat |-> FALSE, export |-> NoExport, walk |-> <<>>, raced |-> FALSE]

Call(op, root_path, extensions, depth, raised, returned, formed, had_tree, repeat) ==
    [op |-> op, root_path |-> root_path, extensions |-> extensions, depth |-> depth,
     raised |-> raised, returned |-> returned, formed |-> formed, had_tree |-> had_tree,
     repeat |-> repeat, export |-> NoExport, walk |-> <<>>, raced |-> FALSE]

\* the record of an export call
ExportCall(op, export, had_tree) ==
    [NoCall EXCEPT !.op = op, !.raised = export.raised, !.returned = ~export.raised,
                   !.had_tree = had_tree, !.export = export]

\* the call before this one was a build through one of ops, with the same
\* arguments, it returned, and no other process has written a file since it began
SameAsLast(ops, root_path, extensions, depth) ==
    /\ ~call.raced /\ ~Pending(fs)
    /\ call.op \in ops
    /\ call.returned
    /\ call.root_path = root_path
    /\ call.extensions = extensions
    /\ call.depth = depth

\* the root paths a client passes together with a filter and a depth: the
\* directory, and its first entry (a file or a subdirectory)
RootPaths ==
    {<<ROOT_NAME>>} \cup {<<ROOT_NAME, fs.entries[i].name>> : i \in 1..Len(fs.entries) \cap {1}}

\* a path that does not exist
MissingPath == <<NOPE>>

\* the extension filters a client passes: none, a bare upper-case extension,
\* a dotted upper-case extension
ExtensionChoices ==
    { NoFilter, Filter({<<"T", "X", "T">>}), Filter({<<".", "P", "D", "F">>}) }

\* a filter with an empty-string entry
EmptyEntryFilter == Filter({<<>>, <<"T", "X", "T">>})

\* the depth arguments a client passes
Depths == -1..MaxDepth

\* the export types a client passes: the two supported ones in lower and in
\* mixed case, and one that is not supported
ExportTypes ==
    { JSON_TYPE, <<"J", "s", "o", "n">>, CSV_TYPE, <<"C", "S", "v">>, <<"x", "m", "l">> }

Init ==
    /\ fs \in FileSystems
    /\ crawler = NoCrawler
    /\ hier = NoHierarchy
    /\ call = NoCall

\* crawler = SystemCrawler()
SystemCrawlerInit ==
    /\ ~crawler.exists /\ ~hier.exists
    /\ crawler' = [NoCrawler EXCEPT !.exists = TRUE]
    /\ call' = Call("SystemCrawler.__init__", None, NoFilter, -1, FALSE, TRUE, EmptyDict, FALSE,
                  FALSE)
    /\ UNCHANGED <<fs, hier>>

\* crawler.build_hierarchy(root_path, extensions, depth)
SystemCrawlerBuild(root_path, extensions, depth) ==
    /\ crawler.exists
    /\ \E r \in {CBuildHierarchy(crawler, root_path, extensions, depth)} :
           /\ crawler' = r.self
           /\ call' = [Call("SystemCrawler.build_hierarchy", root_path, extensions, depth,
                            r.raised, ~r.raised, r.formed, DOMAIN crawler.hierarchy # {},
                            SameAsLast({"SystemCrawler.build_hierarchy"},
                                       root_path, extensions, depth))
                        EXCEPT !.walk = r.walk, !.raced = Pending(fs)]
    /\ fs' = Settled(fs)
    /\ UNCHANGED hier

\* the object Hierarchy(root_path, extensions, depth) is before its build
NewHierarchy(root_path, extensions, depth) ==
    [NoHierarchy EXCEPT !.exists = TRUE, !.root_path = root_path,
                        !.extensions = extensions, !.depth = depth]

\* hier = Hierarchy(): no root path, so nothing is built
HierarchyInitEmpty ==
    /\ ~crawler.exists /\ ~hier.exists
    /\ hier' = NewHierarchy(None, NoFilter, -1)
    /\ call' = Call("Hierarchy.__init__", None, NoFilter, -1, FALSE, TRUE, EmptyDict, FALSE,
                    FALSE)
    /\ UNCHANGED <<fs, crawler>>

\* hier = Hierarchy(root_path, extensions, depth): build, then summarize;
\* an exception in either leaves no object
HierarchyInit(root_path, extensions, depth) ==
    /\ ~crawler.exists /\ ~hier.exists
    /\ \E r \in {HBuildHierarchy(EmptyDict, root_path, extensions, depth)} :
       \E s \in {AnalyzeHierarchy(r.self)} :
       LET returned == ~r.raised /\ ~s.raised
       IN  /\ hier' = IF returned
                      THEN [NewHierarchy(root_path, extensions, depth) EXCEPT
                              !.dict = r.self,
                              !.hierarchy_root_path = root_path,
                              !.summary = s.summary]
                      ELSE hier
           /\ call' = [Call("Hierarchy.__init__", root_path, extensions, depth,
                            r.raised, returned, r.formed, FALSE, FALSE)
                        EXCEPT !.walk = r.walk, !.raced = Pending(fs)]
    /\ fs' = Settled(fs)
    /\ UNCHANGED crawler

\* hier.root_path = root_path; hier.build_hierarchy()
HierarchyBuild(root_path) ==
    /\ hier.exists
    /\ \E r \in {HBuildHierarchy(hier.dict, root_path, hier.extensions, hier.depth)} :
           /\ hier' = [hier EXCEPT !.root_path = root_path, !.dict = r.self]
           /\ call' = [Call("Hierarchy.build_hierarchy", root_path, hier.extensions,
                            hier.depth, r.raised, ~r.raised, r.formed,
                            DOMAIN hier.dict # {},
                            SameAsLast({"Hierarchy.__init__", "Hierarchy.build_hierarchy"},
                                       root_path, hier.extensions, hier.depth))
                        EXCEPT !.walk = r.walk, !.raced = Pending(fs)]
    /\ fs' = Settled(fs)
    /\ UNCHANGED crawler

\* another process starts to write the file at t, while the object holds no
\* tree yet; its write lands while the next build is between its two reads of
\* the file (or at any time during that build, if the build does not read it)
WriterOpens(t) ==
    /\ crawler.exists \/ hier.exists
    /\ DOMAIN crawler.hierarchy = {} /\ DOMAIN hier.dict = {}
    /\ ~Pending(fs)
    /\ \A i \in 1..Len(fs.entries) : ~fs.entries[i].link
    /\ fs' = WriteAt(fs, t)
    /\ call' = [NoCall EXCEPT !.op = "write by another process"]
    /\ UNCHANGED <<crawler, hier>>

\* crawler.export_to_csv(output_path)
SystemCrawlerExportCsv ==
    /\ crawler.exists
    /\ call' = ExportCall("SystemCrawler.export_to_csv",
                          [export_to_csv(crawler.hierarchy, "crawler") EXCEPT
                              !.type = CSV_TYPE],
                          DOMAIN crawler.hierarchy # {})
    /\ UNCHANGED <<fs, crawler, hier>>

\* hier.export(location, export_type)
HierarchyExport(export_type) ==
    /\ hier.exists
    /\ call' = ExportCall("Hierarchy.export", HExport(hier.dict, export_type),
                          DOMAIN hier.dict # {})
    /\ UNCHANGED <<fs, crawler, hier>>

Next ==
    \/ SystemCrawlerInit
    \/ \E p \in RootPaths, e \in ExtensionChoices, d \in Depths : SystemCrawlerBuild(p, e, d)
    \/ SystemCrawlerBuild(MissingPath, NoFilter, -1)
    \/ HierarchyInitEmpty
    \/ \E p \in RootPaths, e \in ExtensionChoices, d \in Depths : HierarchyInit(p, e, d)
    \/ HierarchyInit(MissingPath, NoFilter, -1)
    \/ SystemCrawlerBuild(<<ROOT_NAME>>, EmptyEntryFilter, -1)
    \/ HierarchyInit(<<ROOT_NAME>>, EmptyEntryFilter, -1)
    \/ \E p \in RootPaths \cup {MissingPath} : HierarchyBuild(p)
    \/ SystemCrawlerExportCsv
    \/ \E t \in ExportTypes : HierarchyExport(t)
    \/ \E t \in WriteTargets(fs, 0) : WriterOpens(t)

Spec == Init /\ [][Next]_vars

-----------------------------------------------------------------------------
(* What the properties speak of: the last build, its tree, the directory it read *)

BuildOps == {"SystemCrawler.build_hierarchy", "Hierarchy.build_hierarchy",
             "Hierarchy.__init__"}

IsCrawlerCall == call.op = "SystemCrawler.build_hierarchy"

\* the last call ran build_hierarchy on an existing directory, and no other
\* process wrote a file during the call
BuildOnDirectory == call.op \in BuildOps /\ path_isdir(call.root_path) /\ ~call.raced

\* ... and build_hierarchy returned
Built == BuildOnDirectory /\ ~call.raised

BuiltDir == Lookup(call.root_path).entry

BuiltName == basename(call.root_path)

\* the root node of the tree the build formed
BuiltRoot == call.formed[BuiltName]

\* the tree the object holds
Held == IF IsCrawlerCall THEN crawler.hierarchy ELSE hier.dict

\* extension -> items of a node, in either builder's layout
Groups(node) ==
    IF IsCrawlerCall
    THEN [e \in DOMAIN node.files.by_extension |-> node.files.by_extension[e].items]
    ELSE node.files

FileCount(node) == IF IsCrawlerCall THEN node.files.count ELSE node.file_count

ItemNames(items) == {items[i].name : i \in 1..Len(items)}

\* the file names recorded in a node
NodeNames(node) == UNION {ItemNames(Groups(node)[e]) : e \in DOMAIN Groups(node)}

EntryNamed(dir, n) ==
    dir.entries[CHOOSE i \in 1..Len(dir.entries) : dir.entries[i].name = n]

RECURSIVE NodesOf(_, _, _)
\* every node of a tree, with the directory it stands for and its level
NodesOf(node, dir, level) ==
    {[node |-> node, dir |-> dir, level |-> level]}
        \cup UNION {NodesOf(GetDirectories(node)[n], EntryNamed(dir, n), level + 1) :
                        n \in DOMAIN GetDirectories(node)}

BuiltNodes == NodesOf(BuiltRoot, BuiltDir, 0)

\* the allow-list as the specification states it: lower-cased, with a leading dot
Dotted(s) == IF Len(s) > 0 /\ Head(s) = "." THEN s ELSE <<".">> \o s

Allowed(extensions) == {Dotted(str_lower(e)) : e \in extensions.exts}

\* the file passes the filter of the last call
Passes(name) ==
    call.extensions.isNone \/ str_lower(splitext_ext(name)) \in Allowed(call.extensions)

\* the positions of the files of a directory that the last call includes
IncludedFiles(dir) ==
    {i \in 1..Len(dir.entries) : ~dir.entries[i].isdir /\ Passes(dir.entries[i].name)}

IncludedNames(dir) == {dir.entries[i].name : i \in IncludedFiles(dir)}

RECURSIVE SumOver(_, _)
\* the sum of the sizes of the files at the positions idx of a directory
SumOver(dir, idx) ==
    IF idx = {} THEN 0
    ELSE LET i == CHOOSE x \in idx : TRUE
         IN  Size(dir.entries[i].content) + SumOver(dir, idx \ {i})

OwnSize(dir) == SumOver(dir, IncludedFiles(dir))

RECURSIVE DirPaths(_)
\* the paths, relative to dir, of the directories below dir
DirPaths(dir) ==
    UNION {{<<dir.entries[i].name>>}
             \cup {<<dir.entries[i].name>> \o p : p \in DirPaths(dir.entries[i])} :
           i \in {j \in 1..Len(dir.entries) : dir.entries[j].isdir}}

RECURSIVE TreePaths(_)
\* the paths, relative to node, of the nodes below node
TreePaths(node) ==
    UNION {{<<n>>} \cup {<<n>> \o p : p \in TreePaths(GetDirectories(node)[n])} :
           n \in DOMAIN GetDirectories(node)}

-----------------------------------------------------------------------------
(* C1: in the tree a build forms, every node's total_size_in_bytes is the sum  *)
(* of the sizes of the directory's own included files plus the                 *)
(* total_size_in_bytes of every node in its subdirectories mapping.            *)
C1_TotalIsOwnPlusSubtotals ==
    Built =>
        \A x \in BuiltNodes :
            x.node.total_size_in_bytes =
                OwnSize(x.dir)
                    + SumTotals(GetDirectories(x.node), DOMAIN GetDirectories(x.node))

(* C2: a build with depth N >= 0 represents a directory k levels below the     *)
(* root exactly when 1 <= k <= N, whether or not it holds an included file;    *)
(* with N = 0 the root records no subdirectory and only its own included       *)
(* files; with depth -1 every directory is represented.                        *)
C2_DepthLimit ==
    Built =>
        /\ TreePaths(BuiltRoot) =
              {p \in DirPaths(BuiltDir) : call.depth = -1 \/ Len(p) <= call.depth}
        /\ call.depth = 0 =>
              /\ DOMAIN BuiltRoot.directories = {}
              /\ NodeNames(BuiltRoot) = IncludedNames(BuiltDir)

\* depth 1, a directory two levels down, and a first-level directory that holds
\* no included file and is represented all the same
C2_Witness ==
    /\ Built
    /\ call.depth = 1
    /\ \E p \in DirPaths(BuiltDir) : Len(p) = 2
    /\ \E x \in BuiltNodes : x.level = 1 /\ IncludedFiles(x.dir) = {}

(* C3: every entry of the extensions set is lower-cased and given a leading   *)
(* dot ("TXT" and ".TXT" both become ".txt"); a file is included exactly when  *)
(* the lower-cased extension of its name is in the normalized set; the         *)
(* extension-group keys are a subset of the normalized set.                    *)
UpperCase == {"D", "F", "P", "T", "X"}

C3_ExtensionFilter ==
    /\ NormalizeExtensions(Filter({<<"T", "X", "T">>})) = Filter({<<".", "t", "x", "t">>})
    /\ NormalizeExtensions(Filter({<<".", "T", "X", "T">>})) = Filter({<<".", "t", "x", "t">>})
    /\ (Built /\ ~call.extensions.isNone) =>
          LET normalized == NormalizeExtensions(call.extensions).exts
          IN  /\ normalized = Allowed(call.extensions)
              /\ \A e \in normalized :
                    Head(e) = "." /\ \A i \in 1..Len(e) : e[i] \notin UpperCase
              /\ \A x \in BuiltNodes :
                    /\ NodeNames(x.node) = IncludedNames(x.dir)
                    /\ DOMAIN Groups(x.node) \subseteq normalized

\* the filter {"TXT"} has included both a.txt and x.TXT
C3_Witness ==
    /\ Built
    /\ call.extensions = Filter({<<"T", "X", "T">>})
    /\ {A_TXT, X_TXT_UPPER} \subseteq NodeNames(BuiltRoot)

(* C4: with an active filter, a file whose lower-cased extension is not in the *)
(* allow-list is excluded at every level: it is in no extension group, adds    *)
(* nothing to total_size_in_bytes or file_count of any node, and is not        *)
(* counted when duplicates are grouped by hash.                                *)
RECURSIVE Pruned(_)
\* the directory without the files the last call's filter excludes
Pruned(dir) ==
    LET keep == {i \in 1..Len(dir.entries) :
                    dir.entries[i].isdir \/ Passes(dir.entries[i].name)}
        f[i \in 0..Len(dir.entries)] ==
            IF i = 0 THEN <<>>
            ELSE IF i \notin keep THEN f[i - 1]
            ELSE IF dir.entries[i].isdir THEN Append(f[i - 1], Pruned(dir.entries[i]))
            ELSE Append(f[i - 1], dir.entries[i])
    IN  [dir EXCEPT !.entries = f[Len(dir.entries)]]

\* the tree the builder of the last call forms for a directory
FormedFor(dir) ==
    IF IsCrawlerCall
    THEN CFormHierarchy(dir, BuiltName, call.extensions, call.depth)
    ELSE HFormHierarchy(dir, BuiltName, call.extensions, call.depth)

ExcludedNames(dir) ==
    {dir.entries[i].name :
        i \in {j \in 1..Len(dir.entries) :
                  ~dir.entries[j].isdir /\ ~Passes(dir.entries[j].name)}}

DuplicateNames(node) ==
    IF "duplicates" \in DOMAIN node
    THEN UNION {{node.duplicates[h][i] : i \in 1..Len(node.duplicates[h])} :
                    h \in DOMAIN node.duplicates}
    ELSE {}

C4_ExcludedFilesLeaveNoTrace ==
    (Built /\ ~call.extensions.isNone) =>
        /\ \A x \in BuiltNodes :
              /\ ExcludedNames(x.dir) \cap NodeNames(x.node) = {}
              /\ ExcludedNames(x.dir) \cap DuplicateNames(x.node) = {}
              /\ FileCount(x.node) = Cardinality(IncludedFiles(x.dir))
        /\ call.formed = FormedFor(Pruned(BuiltDir)).formed

\* an excluded file below the root, next to an excluded file in the root
C4_Witness ==
    /\ Built
    /\ ~call.extensions.isNone
    /\ \E x \in BuiltNodes : x.level >= 1 /\ ExcludedNames(x.dir) # {}
    /\ ExcludedNames(BuiltDir) # {}

(* C5: the duplicates map of a node holds exactly the hashes shared by two or  *)
(* more included files of that directory itself, each mapped to exactly those  *)
(* names; no hash has fewer than two names; the same hash in different         *)
(* directories is reported at neither; the key is absent without such a hash.  *)
HashesOf(dir) == {Hash(dir.entries[i].content) : i \in IncludedFiles(dir)}

NamesWithHash(dir, h) ==
    {dir.entries[i].name :
        i \in {j \in IncludedFiles(dir) : Hash(dir.entries[j].content) = h}}

SharedHashes(dir) == {h \in HashesOf(dir) : Cardinality(NamesWithHash(dir, h)) >= 2}

C6_ScenarioDuplicatesInNameOrder ==
    (Built /\ call.extensions.isNone /\ BuiltDir.entries \in ScenarioListings) =>
        /\ FileCount(BuiltRoot) = 3
        /\ Len(Groups(BuiltRoot)[<<".", "t", "x", "t">>]) = 2
        /\ "duplicates" \in DOMAIN BuiltRoot
        /\ DOMAIN BuiltRoot.duplicates = {Hash("hello")}
        /\ BuiltRoot.duplicates[Hash("hello")] = <<A_TXT, B_TXT>>

(* C7: after SystemCrawler.build_hierarchy on a root that does not exist or is *)
(* no directory, the call has returned without raising and crawler.hierarchy   *)
(* is {}, whatever tree earlier calls had left there.                          *)
C7_InvalidRootEmptiesCrawler ==
    (IsCrawlerCall /\ ~path_isdir(call.root_path)) =>
        /\ ~call.raised
        /\ call.returned
        /\ crawler.hierarchy = EmptyDict

\* the root is a file, and the crawler held a tree when the call began
C7_Witness ==
    /\ IsCrawlerCall
    /\ path_exists(call.root_path)
    /\ ~path_isdir(call.root_path)
    /\ call.had_tree
    /\ crawler.hierarchy = EmptyDict

(* C8: in a build on a valid root, an entry whose stat, open/read or listing   *)
(* fails is skipped: the build still returns a tree, the tree holds every      *)
(* other file and directory, and the aggregates exclude the failing entry.     *)
RECURSIVE Healed(_)
\* the directory without the entries that cannot be accessed
Healed(dir) ==
    LET f[i \in 0..Len(dir.entries)] ==
            IF i = 0 THEN <<>>
            ELSE IF ~dir.entries[i].ok THEN f[i - 1]
            ELSE IF dir.entries[i].isdir THEN Append(f[i - 1], Healed(dir.entries[i]))
            ELSE Append(f[i - 1], dir.entries[i])
    IN  [dir EXCEPT !.entries = f[Len(dir.entries)]]

C8_FailingEntriesAreSkipped ==
    (BuildOnDirectory /\ BuiltDir.ok) =>
        /\ ~call.raised
        /\ call.formed = FormedFor(Healed(BuiltDir)).formed

(* C9: building an existing directory without entries yields a tree with       *)
(* exactly one root node, keyed by the base name, with total size 0, file      *)
(* count 0, an empty subdirectories mapping, no extension group and no         *)
(* duplicates key.                                                             *)
C9_EmptyDirectory ==
    (Built /\ BuiltDir.ok /\ BuiltDir.entries = <<>>) =>
        /\ DOMAIN call.formed = {BuiltName}
        /\ BuiltRoot.total_size_in_bytes = 0
        /\ FileCount(BuiltRoot) = 0
        /\ "directories" \in DOMAIN BuiltRoot
        /\ DOMAIN BuiltRoot.directories = {}
        /\ DOMAIN Groups(BuiltRoot) = {}
        /\ "duplicates" \notin DOMAIN BuiltRoot
        /\ call.returned =>
              /\ BuiltName \in DOMAIN Held
              /\ Held[BuiltName] = BuiltRoot
        /\ IsCrawlerCall => crawler.hierarchy = call.formed

\* an empty directory has been built and the object holds its node
C9_Witness ==
    /\ Built
    /\ BuiltDir.ok
    /\ BuiltDir.entries = <<>>
    /\ call.returned
    /\ BuiltName \in DOMAIN Held

(* C10: in the finished tree of either builder, at every node at every depth,  *)
(* the file names of each extension group are in lexicographic order, for      *)
(* every order in which the listing returned the entries.                      *)
IsSorted(items) ==
    \A i \in 1..(Len(items) - 1) : StrLess(items[i].name, items[i + 1].name)

C10_GroupsSorted ==
    Built =>
        \A x \in BuiltNodes :
            \A e \in DOMAIN Groups(x.node) : IsSorted(Groups(x.node)[e])

(* C11: every included file is recorded in exactly one extension group of     *)
(* exactly one node: the group keyed by the lower-cased extension of its name, *)
(* in the node of the directory that holds it; no file is recorded twice and   *)
(* no included file is missing.                                                *)
\* the (extension, position) pairs under which a node records files
Recorded(node) ==
    UNION {{<<e, i>> : i \in 1..Len(Groups(node)[e])} : e \in DOMAIN Groups(node)}

C11_OneGroupOneNode ==
    Built =>
        \A x \in BuiltNodes :
            /\ \A r \in Recorded(x.node) :
                  str_lower(splitext_ext(Groups(x.node)[r[1]][r[2]].name)) = r[1]
            /\ \A r, q \in Recorded(x.node) :
                  Groups(x.node)[r[1]][r[2]].name = Groups(x.node)[q[1]][q[2]].name => r = q
            /\ NodeNames(x.node) = IncludedNames(x.dir)

\* files are recorded in the root and in a node below it
C11_Witness ==
    /\ Built
    /\ NodeNames(BuiltRoot) # {}
    /\ \E x \in BuiltNodes : x.level >= 1 /\ Cardinality(NodeNames(x.node)) >= 2

(* C12: a build that repeats the build before it on the same object (same     *)
(* root, filter and depth, the directory tree unchanged) returns, forms a tree *)
(* equal to the one the first build formed, and leaves the object holding what *)
(* it held after the first build: nothing of the first run is added.           *)
C12_Idempotent ==
    [][call'.repeat =>
          /\ ~call'.raised
          /\ call'.formed = call.formed
          /\ crawler'.hierarchy = crawler.hierarchy
          /\ hier'.dict = hier.dict]_vars

\* a SystemCrawler that holds the tree of a directory with files has built it again
C12_Witness ==
    /\ IsCrawlerCall
    /\ call.repeat
    /\ call.had_tree
    /\ Built
    /\ BuiltRoot.total_size_in_bytes > 0
    /\ crawler.hierarchy = call.formed

(* C13: the CSV export of a built tree has exactly one row per file recorded   *)
(* anywhere in the tree, at every depth, and the directory column of a row is  *)
(* the names of the file's ancestor directories from the root down, joined     *)
(* with "/".                                                                   *)
CsvExportOps == {"SystemCrawler.export_to_csv", "Hierarchy.export"}

\* the last call was a CSV export that returned
CsvExported ==
    /\ call.op \in CsvExportOps
    /\ str_lower(call.export.type) = CSV_TYPE
    /\ ~call.export.raised

ExportedTree == IF call.op = "SystemCrawler.export_to_csv" THEN crawler.hierarchy ELSE hier.dict

ExportedLayout == IF call.op = "SystemCrawler.export_to_csv" THEN "crawler" ELSE "hierarchy"

RECURSIVE TreeRows(_, _)
\* a row for every file recorded in the node at directory_path and below it
TreeRows(node, directory_path) ==
    {Row(directory_path, FilesGroups(node.files, ExportedLayout)[e][i]) :
        <<e, i>> \in UNION {{<<x, j>> : j \in 1..Len(FilesGroups(node.files, ExportedLayout)[x])} :
                                x \in DOMAIN FilesGroups(node.files, ExportedLayout)}}
        \cup UNION {TreeRows(GetDirectories(node)[n], SlashJoin(directory_path, n)) :
                        n \in DOMAIN GetDirectories(node)}

C13_CsvOneRowPerFile ==
    CsvExported =>
        /\ BagToSet(call.export.rows) =
              UNION {TreeRows(ExportedTree[k], k) : k \in DOMAIN ExportedTree}
        /\ \A r \in BagToSet(call.export.rows) : CopiesIn(r, call.export.rows) = 1

(* C14: Hierarchy.export with an export type that is neither "json" nor "csv"  *)
(* when lower-cased raises an error naming the type, calls no export service   *)
(* and writes no file; with "json" or "csv" in any letter case it calls        *)
(* exactly the matching service.                                               *)
C14_ExportDispatch ==
    call.op = "Hierarchy.export" =>
        LET t == str_lower(call.export.type)
        IN  /\ t \notin {JSON_TYPE, CSV_TYPE} =>
                  /\ call.export.raised /\ ~call.returned
                  /\ call.export.unsupported = call.export.type
                  /\ call.export.services = <<>>
                  /\ ~call.export.written
            /\ t = JSON_TYPE =>
                  /\ ~call.export.raised
                  /\ call.export.services = <<"JSONService.export_to_json">>
                  /\ call.export.json = hier.dict
            /\ t = CSV_TYPE =>
                  /\ ~call.export.raised
                  /\ call.export.services = <<"CSVService.export_to_csv">>

\* an export of a held tree with a type that is not supported has raised
C14_Witness ==
    /\ call.op = "Hierarchy.export"
    /\ call.had_tree
    /\ str_lower(call.export.type) \notin {JSON_TYPE, CSV_TYPE}
    /\ call.export.raised

(* C15: when the Hierarchy constructor has built the tree of an existing       *)
(* directory, its summary analysis completes without raising, and              *)
(* empty_directories holds exactly the paths of the subdirectory nodes with no *)
(* included files and no recorded subdirectories.                              *)
RECURSIVE EmptyNodePaths(_, _)
\* the paths of the nodes below node that record no file and no subdirectory
EmptyNodePaths(node, path) ==
    UNION {(IF DOMAIN GetDirectories(node)[n].files = {}
               /\ DOMAIN GetDirectories(GetDirectories(node)[n]) = {}
            THEN {Append(path, n)} ELSE {})
             \cup EmptyNodePaths(GetDirectories(node)[n], Append(path, n)) :
           n \in DOMAIN GetDirectories(node)}

C15_SummaryCompletes ==
    (call.op = "Hierarchy.__init__" /\ Built) =>
        /\ call.returned
        /\ hier.summary.computed
        /\ hier.summary.empty_directories = EmptyNodePaths(BuiltRoot, <<BuiltName>>)

(* C16: in every node, file_count is the number of files of that directory    *)
(* itself that were included after filtering, which is the number of entries   *)
(* over all extension groups of the node; in the SystemCrawler tree            *)
(* files.count is also the sum of the per-extension counts, and each           *)
(* per-extension count is the number of items of its group.                    *)
RECURSIVE SumCounts(_, _)
\* the sum of the per-extension counts of a SystemCrawler "files" section
SumCounts(by_extension, exts) ==
    IF exts = {} THEN 0
    ELSE LET e == CHOOSE x \in exts : TRUE
         IN  by_extension[e].count + SumCounts(by_extension, exts \ {e})

C16_FileCount ==
    Built =>
        \A x \in BuiltNodes :
            /\ FileCount(x.node) = Cardinality(IncludedFiles(x.dir))
            /\ FileCount(x.node) = Cardinality(Recorded(x.node))
            /\ IsCrawlerCall =>
                  /\ x.node.files.count =
                        SumCounts(x.node.files.by_extension, DOMAIN x.node.files.by_extension)
                  /\ \A e \in DOMAIN x.node.files.by_extension :
                        x.node.files.by_extension[e].count =
                            Len(x.node.files.by_extension[e].items)

\* a directory with files holds a subdirectory with more files
C16_Witness ==
    /\ Built
    /\ FileCount(BuiltRoot) = 1
    /\ \E x \in BuiltNodes : x.level = 1 /\ FileCount(x.node) = 2

(* C17: after Hierarchy.build_hierarchy has run again on an object that held a *)
(* tree, the object holds only the tree of the latest root, and is empty when  *)
(* the latest root does not exist or is no directory: no top-level key of the  *)
(* earlier build remains.                                                      *)
C17_FreshTreePerBuild ==
    (call.op = "Hierarchy.build_hierarchy" /\ call.had_tree /\ ~call.raised) =>
        hier.dict = call.formed

(* C18: the walk is depth-first and sequential: once the builder has entered a *)
(* subdirectory, everything of that subdirectory's subtree (every file's       *)
(* metadata and hash, every directory below it, the return that leaves the     *)
(* node finished) happens before any later entry of its parent, so the work on *)
(* two sibling subtrees never overlaps.                                        *)
IsPrefix(p, q) == Len(p) <= Len(q) /\ SubSeq(q, 1, Len(p)) = p

\* the positions in the walk of the last build where the event is recorded
WalkAt(kind, path) ==
    {i \in 1..Len(call.walk) : call.walk[i] = Event(kind, path)}

RECURSIVE NodeAt(_, _)
\* the node at a path below node
NodeAt(node, path) ==
    IF path = <<>> THEN node ELSE NodeAt(GetDirectories(node)[Head(path)], Tail(path))

-----------------------------------------------------------------------------
(* C19 *)

RECURSIVE AllReadable(_)
\* every entry below the directory can be listed and read, the symbolic links
\* apart (where a link ends is up to the system, not to the tree's content)
AllReadable(dir) ==
    /\ dir.ok
    /\ \A i \in 1..Len(dir.entries) :
          \/ dir.entries[i].link
          \/ IF dir.entries[i].isdir
             THEN AllReadable(dir.entries[i])
             ELSE dir.entries[i].ok

\* the nodes of the built tree that stand for the target of a symbolic link, a
\* directory which the node of the link's ancestor already stands for
LinkNodes == {x \in BuiltNodes : x.dir.link}

\* C19: on any finite file system, one with a symbolic link to an ancestor
\* directory included, an unlimited build (depth -1) returns, and its tree
\* represents no directory more than once.
C19_TerminatesOnLinkToAncestor ==
    (BuildOnDirectory /\ call.depth = -1 /\ AllReadable(BuiltDir)) =>
        /\ ~call.raised
        /\ LinkNodes = {}

-----------------------------------------------------------------------------
(* C20 *)

\* the nodes of the built tree, each named by its path below the root node
BuiltPaths == TreePaths(BuiltRoot) \cup {<<>>}

\* the extension groups recorded anywhere in the built tree
BuiltExtensions == UNION {DOMAIN Groups(NodeAt(BuiltRoot, p)) : p \in BuiltPaths}

RECURSIVE TotalFileCount(_)
\* the sum of file_count over the nodes at the paths
TotalFileCount(paths) ==
    IF paths = {} THEN 0
    ELSE LET p == CHOOSE x \in paths : TRUE
         IN  FileCount(NodeAt(BuiltRoot, p)) + TotalFileCount(paths \ {p})

RECURSIVE SizeUpTo(_, _)
\* the size of the first n files of a group
SizeUpTo(items, n) ==
    IF n = 0 THEN 0 ELSE SizeUpTo(items, n - 1) + items[n].meta.size_in_bytes

RECURSIVE TotalGroupSize(_, _)
\* the sum of the sizes of the files in group ext over the nodes at the paths
TotalGroupSize(paths, ext) ==
    IF paths = {} THEN 0
    ELSE LET p == CHOOSE x \in paths : TRUE
             groups == Groups(NodeAt(BuiltRoot, p))
         IN  (IF ext \in DOMAIN groups THEN SizeUpTo(groups[ext], Len(groups[ext])) ELSE 0)
                + TotalGroupSize(paths \ {p}, ext)

\* C20: when the analysis of a tree built by Hierarchy returns, total_files is
\* the sum of file_count over all nodes, total_directories is the number of
\* subdirectory nodes at all depths (the root not counted), and
\* disk_usage_by_extension[ext] is the sum of the sizes of the files recorded
\* in group ext over all nodes.
C20_SummaryTotals ==
    (call.op = "Hierarchy.__init__" /\ Built /\ call.returned) =>
        /\ hier.summary.total_files = TotalFileCount(BuiltPaths)
        /\ hier.summary.total_directories = Cardinality(TreePaths(BuiltRoot))
        /\ DOMAIN hier.summary.disk_usage_by_extension = BuiltExtensions
        /\ \A ext \in BuiltExtensions :
              hier.summary.disk_usage_by_extension[ext] = TotalGroupSize(BuiltPaths, ext)

\* the analysis returned for a tree with files of one extension in its root and
\* in a subdirectory
C20_Witness ==
    /\ call.op = "Hierarchy.__init__" /\ Built /\ call.returned
    /\ \E p \in TreePaths(BuiltRoot), ext \in DOMAIN Groups(BuiltRoot) :
          /\ ext \in DOMAIN Groups(NodeAt(BuiltRoot, p))
          /\ hier.summary.disk_usage_by_extension[ext] > 0
          /\ hier.summary.total_files >= 2

-----------------------------------------------------------------------------
(* C21 *)

\* the last call ran build_hierarchy on an existing directory and returned,
\* whether or not another process wrote a file during the call
ReturnedBuild == call.op \in BuildOps /\ path_isdir(call.root_path) /\ ~call.raised

\* the hash in the metadata a node stores for the file name n
StoredHash(node, n) ==
    LET items == Groups(node)[FileExt(n)]
    IN  items[CHOOSE i \in 1..Len(items) : items[i].name = n].meta.hash

RECURSIVE StoredSize(_, _)
\* the sum of size_in_bytes over the files stored in the groups exts
StoredSize(groups, exts) ==
    IF exts = {} THEN 0
    ELSE LET e == CHOOSE x \in exts : TRUE
         IN  SizeUpTo(groups[e], Len(groups[e])) + StoredSize(groups, exts \ {e})

\* what the node's own files added to its total_size_in_bytes: the total, less
\* (in the root node) the totals of the subdirectories added after the loop
Contributed(x) ==
    x.node.total_size_in_bytes
        - (IF x.level = 0
           THEN SumTotals(GetDirectories(x.node), DOMAIN GetDirectories(x.node))
           ELSE 0)

\* every name listed under duplicates[h] is stored with hash h
DuplicatesAgree(node) ==
    "duplicates" \in DOMAIN node =>
        \A h \in DOMAIN node.duplicates :
            \A i \in 1..Len(node.duplicates[h]) :
                StoredHash(node, node.duplicates[h][i]) = h

\* C21: the aggregates of every node agree with the metadata stored in it, even
\* if another process modifies a file during the build: each name under
\* duplicates[h] is stored with hash h, and the stored sizes sum to what the
\* node's files contributed to its total_size_in_bytes.
C21_AggregatesAgreeWithMetadata ==
    ReturnedBuild =>
        \A x \in BuiltNodes :
            /\ DuplicatesAgree(x.node)
            /\ StoredSize(Groups(x.node), DOMAIN Groups(x.node)) = Contributed(x)

-----------------------------------------------------------------------------
(* C22 *)

\* C22: after any sequence of SystemCrawler.build_hierarchy calls (on valid
\* roots, on invalid roots, aborted by an exception during the walk), whenever
\* crawler.hierarchy is not empty its single top-level key is the base name of
\* crawler.hierarchy_root_path.
C22_RootPathIsRootOfTree ==
    (crawler.exists /\ DOMAIN crawler.hierarchy # {}) =>
        /\ crawler.hierarchy_root_path # None
        /\ DOMAIN crawler.hierarchy = {basename(crawler.hierarchy_root_path)}

-----------------------------------------------------------------------------
(* C23 *)

\* the names of the files of a directory that have no extension
PlainNames(dir) ==
    {dir.entries[i].name :
        i \in {j \in 1..Len(dir.entries) :
                  ~dir.entries[j].isdir /\ splitext_ext(dir.entries[j].name) = <<>>}}

\* C23: with an active extension filter, a file whose name has no extension is
\* never included, whatever the filter contains: every normalized entry starts
\* with a dot, and an empty-string entry is normalized to ".", which does not
\* match the empty extension.
C23_NoExtensionNeverIncluded ==
    /\ NormalizeExt(<<>>) = <<".">>
    /\ (Built /\ ~call.extensions.isNone) =>
          /\ \A e \in NormalizeExtensions(call.extensions).exts : startswith_dot(e)
          /\ \A x \in BuiltNodes :
                /\ PlainNames(x.dir) \cap NodeNames(x.node) = {}
                /\ <<>> \notin DOMAIN Groups(x.node)

\* a filter with an empty-string entry was applied to a directory that holds
\* files without extension, and a file with an extension was included
C23_Witness ==
    /\ Built
    /\ ~call.extensions.isNone /\ <<>> \in call.extensions.exts
    /\ {NOTE, DOT_TXT} \subseteq PlainNames(BuiltDir)
    /\ A_TXT \in NodeNames(BuiltRoot)

-----------------------------------------------------------------------------
(* C24 *)

\* C24: no partial tree is ever published. A build_hierarchy call that raises
\* during the walk leaves the tree held by the object (SystemCrawler.hierarchy,
\* the contents of the Hierarchy dict) exactly as it was before the call; the
\* held tree changes only where a call that returns stores its result.
C24_NoPartialTree ==
    [][/\ (call'.op \in BuildOps /\ call'.raised) =>
              /\ crawler'.hierarchy = crawler.hierarchy
              /\ hier'.dict = hier.dict
       /\ crawler'.hierarchy # crawler.hierarchy =>
              /\ call'.op = "SystemCrawler.build_hierarchy"
              /\ ~call'.raised
              /\ crawler'.hierarchy = call'.formed
       /\ hier'.dict # hier.dict =>
              /\ call'.op \in {"Hierarchy.__init__", "Hierarchy.build_hierarchy"}
              /\ ~call'.raised
              /\ hier'.dict = DictUpdate(hier.dict, call'.formed)]_vars

\* a build on an object that held a tree was ended by an exception, and the
\* object holds a tree
C24_Witness ==
    /\ call.op \in BuildOps
    /\ call.raised
    /\ call.had_tree
    /\ DOMAIN Held # {}

====
